---- MODULE Spec2Model ----
(***************************************************************************)
(* Model of the compliance RAG pipeline: the Postgres chat-history table   *)
(* (src/src/history.py), the retriever pipeline (src/src/retriever.py),    *)
(* the context assembler, contextualizer and rag_query (src/src/rag.py)    *)
(* and the query entry point (src/main.py).                                *)
(*                                                                         *)
(* External collaborators (Postgres, Qdrant search, Cohere rerank, the two *)
(* Groq models) are nondeterministic: every call either raises or returns  *)
(* any value its contract allows.                                          *)
(***************************************************************************)
EXTENDS Integers, Sequences, FiniteSets, TLC

\* ---------------------------------------------------------------- bounds
\* Number of queries issued through query() in one behaviour.
MaxQueries == 2
\* Chunks stored in the Qdrant collection when the retriever is exercised alone.
NumChunks == 7
\* Direct calls to save_message / clear_session in the history-store specification.
MaxHistoryOps == 4
\* Length of the chunk list handed to format_context when it is exercised alone.
MaxDocs == 3
\* Chunks the loader and chunker can hand to qdrant_ingest.
MaxIngestChunks == 3
\* Process startups (qdrant_ingest calls) in one behaviour.
MaxStartups == 2

\* ------------------------------------------------------ program constants
TOP_K == 6
TOP_N == 3

\* --------------------------------------------------------------- universes
Threads == {"t1", "t2"}
MainLoop == "t1"
Sessions == {"s1", "s2"}
Questions == {"q1", "q2"}
AnswerTexts == {"a1", "a2"}
Roles == {"human", "ai"}
\* Relevance scores the rerank service can attach to a candidate.
Scores == {1, 2}
\* Chunks in the collection while whole queries are run.
QueryCollection == {1, 2}

\* Optional values: None is <<>>, a present value x is <<x>>.
None == <<>>
Some(x) == <<x>>

\* str(n) for the small naturals that occur (f-string conversion).
ToStr(n) == <<"0", "1", "2", "3", "4", "5", "6", "7", "8", "9">>[n + 1]

VARIABLES
    messages,     \* rows of the Postgres table "messages"
    next_id,      \* the SERIAL sequence behind messages.id
    collection,   \* chunk ids stored in the Qdrant collection
    handles,      \* retriever / llm / structured_llm built at startup
    rq,           \* per thread: the frame of its running rag_query call
    issued,       \* queries issued so far
    log,          \* per session: the turns successfully inserted, in order
    settled,      \* the table as left by the last query without a retrieval failure
    had_failure,  \* some earlier query failed in search or rerank
    loaded,       \* result of the last direct load_history call
    hops,         \* direct history-store calls made so far
    rt,           \* frame of a retriever.invoke call exercised alone
    fc,           \* a format_context call exercised alone: its argument and result
    exists,       \* Qdrant holds a collection of the configured name
    ing           \* the last qdrant_ingest call: its argument, what it found and returned

vars == <<messages, next_id, collection, handles, rq, issued, log, settled,
          had_failure, loaded, hops, rt, fc, exists, ing>>

\* What a running rag_query never touches: the frames of the calls exercised alone.
alone == <<loaded, hops, rt, fc, exists, ing>>
\* What those calls never touch: the frames and bookkeeping of rag_query.
querying == <<rq, issued, settled, had_failure>>

\* ------------------------------------------------------------ history.py
HumanMessage(c) == [type |-> "human", content |-> c]
AIMessage(c) == [type |-> "ai", content |-> c]

\* INSERT INTO messages (session, role, content) VALUES (...), id from the sequence.
InsertRow(msgs, id, s, role, content) ==
    msgs \cup {[id |-> id, session |-> s, role |-> role, content |-> content]}

\* SELECT role, content FROM messages WHERE session = s ORDER BY id
RECURSIVE OrderById(_)
OrderById(rows) ==
    IF rows = {} THEN <<>>
    ELSE LET r == CHOOSE x \in rows : \A y \in rows : x.id <= y.id
         IN <<r>> \o OrderById(rows \ {r})

\* Variant: the SELECT without its WHERE clause.
SelectHistory_AllSessions(msgs, s) == OrderById(msgs)

SelectHistory(msgs, s) == OrderById({r \in msgs : r.session = s})

\* Variant: the loop tests for the role name "user".
RowToMessage_UserRole(r) ==
    IF r.role = "user" THEN HumanMessage(r.content) ELSE AIMessage(r.content)

\* The loop of load_history: "human" rows become HumanMessage, every other row AIMessage.
RowToMessage(r) ==
    IF r.role = "human" THEN HumanMessage(r.content) ELSE AIMessage(r.content)

load_history(msgs, s) ==
    LET rows == SelectHistory(msgs, s)
    IN [i \in 1..Len(rows) |-> RowToMessage(rows[i])]

\* DELETE FROM messages WHERE session = s
DeleteSession(msgs, s) == {r \in msgs : r.session # s}

\* save_message: the INSERT commits, or the exception is logged and swallowed.
SaveOk(s, role, content) ==
    /\ messages' = InsertRow(messages, next_id, s, role, content)
    /\ next_id' = next_id + 1
    /\ log' = [log EXCEPT ![s] = Append(@, [role |-> role, content |-> content])]

SaveFail == UNCHANGED <<messages, next_id, log>>


\* ---------------------------------------------------------- retriever.py
\* search_kwargs of the base retriever and top_n of the reranker, as build_retriever wires them.
FETCH_K == 20
SearchK == TOP_K
\* Variant: the reranker is built with the search width.
RerankTopN_SearchWidth == TOP_K
RerankTopN == TOP_N

build_retriever ==
    [search_type |-> "mmr", k |-> SearchK, fetch_k |-> FETCH_K, top_n |-> RerankTopN]

\* Vector store search call: at most k chunks of the collection (fewer on a small
\* corpus), drawn from a fetch pool of at most fetch_k.
SearchResults(coll, r) ==
    {c \in SUBSET coll : Cardinality(c) <= r.k /\ Cardinality(c) <= r.fetch_k}

\* Reranker call: a subset of the candidates, each with its relevance score, in
\* descending score order, at most top_n of them (possibly fewer, possibly none).
RerankResults(cands, top_n) ==
    LET Lens == 0..(IF Cardinality(cands) < top_n THEN Cardinality(cands) ELSE top_n)
        Hit == [id : cands, relevance_score : Scores]
    IN UNION {
         {r \in [1..n -> Hit] :
             /\ \A i, j \in 1..n : i < j => r[i].id # r[j].id
             /\ \A i \in 1..n : i < n => r[i].relevance_score >= r[i + 1].relevance_score}
         : n \in Lens}

\* ------------------------------------------------------------- ingest.py
\* tag_law_category on the file names of the sample corpus.
tag_law_category(source) ==
    IF source = "tax_act.pdf" THEN "Taxation"
    ELSE IF source = "ndpa.pdf" THEN "Data Protection"
    ELSE "General Compliance"

ChunkText(i) == <<"t1", "t2", "t3", "t4", "t5", "t6", "t7", "t8", "t9">>[i]
ChunkSource(i) == IF i % 2 = 1 THEN "tax_act.pdf" ELSE "ndpa.pdf"

\* A chunk as load_documents and chunk_documents leave it.
ChunkDoc(i) ==
    [page_content |-> ChunkText(i),
     metadata |-> [source |-> ChunkSource(i),
                   page |-> (i % 3) + 1,
                   law_category |-> tag_law_category(ChunkSource(i))]]

\* The copy the reranker returns: the chunk with relevance_score added to its metadata.
RerankedDoc(h) ==
    [page_content |-> ChunkDoc(h.id).page_content,
     metadata |-> ("relevance_score" :> h.relevance_score) @@ ChunkDoc(h.id).metadata]

RerankedDocs(hits) == [i \in 1..Len(hits) |-> RerankedDoc(hits[i])]

\* ---------------------------------------------------------------- rag.py
\* dict.get(key, default)
Get(md, key, default) == IF key \in DOMAIN md THEN md[key] ELSE default

SEPARATOR == "\n\n---\n\n"

\* One element of parts: the f-string of format_context, as its pieces.
ContextEntry(i, d) ==
    <<"[", ToStr(i), "] Source: ", Get(d.metadata, "source", "Unknown"),
      " | Page: ",
      IF "page" \in DOMAIN d.metadata THEN ToStr(d.metadata["page"]) ELSE "?",
      " | Category: ", Get(d.metadata, "law_category", "General Compliance"),
      "\n", d.page_content>>

\* Variant: enumerate(docs) without its start argument.
EnumerateStart_Zero == Len(<<>>)
\* First index of enumerate(docs, 1).
EnumerateStart == 1

\* sep.join(parts)
RECURSIVE Join(_, _)
Join(parts, sep) ==
    IF parts = <<>> THEN <<>>
    ELSE IF Len(parts) = 1 THEN parts[1]
    ELSE parts[1] \o <<sep>> \o Join(Tail(parts), sep)

format_context(docs) ==
    Join([i \in 1..Len(docs) |-> ContextEntry(i + EnumerateStart - 1, docs[i])], SEPARATOR)

\* Variant: the rewrite request is sent whatever the history holds.
NeedsRewrite_Always(history) == TRUE

\* `if not history: return question`: the model is consulted only with prior turns.
NeedsRewrite(history) == history # <<>>

\* What llm.invoke may answer to the rewrite request: the question as it is, or a rewrite.
RewriteTexts == {"rw"}
LLMRewrites(question) == {question} \cup RewriteTexts

\* Values of the ComplianceAnswer shape the structured model may return.
ComplianceAnswers ==
    [answer : AnswerTexts, found_in_docs : BOOLEAN, sources : {<<>>}, confidence : {"high"}]

\* The HumanMessage content f"Context:\n{context}\n\nQuestion: {question}".
UserTurn(context, question) == <<"Context:\n">> \o context \o <<"\n\nQuestion: ", question>>

BuildPrompt(history, context, question) ==
    [system |-> "SYSTEM_PROMPT", history |-> history, user |-> UserTurn(context, question)]

\* Variant: the question is stored before the pipeline has produced an answer.
Pipeline_SaveFirst ==
    <<"load_history", "contextualize_question", "save_human", "retriever.invoke",
      "structured_llm.invoke", "save_ai">>

\* The statements of rag_query's try block, in program order.
Pipeline ==
    <<"load_history", "contextualize_question", "retriever.invoke",
      "structured_llm.invoke", "save_human", "save_ai">>

IdleFrame ==
    [pc |-> "idle", ip |-> 0, question |-> "", session_id |-> "", before |-> {},
     history |-> <<>>, standalone |-> "", llm_calls |-> 0, retriever_arg |-> None,
     cands |-> {}, rerank_called |-> FALSE, retrieved |-> <<>>, prompt |-> None,
     result |-> None, ret |-> None, failed |-> {}]

Stmt(p) == IF rq[p].pc = "running" THEN Pipeline[rq[p].ip] ELSE "none"

\* Fall through to the next statement; after the last one, `return result`.
Advance(f) ==
    IF f.ip = Len(Pipeline)
    THEN [f EXCEPT !.pc = "done", !.ip = @ + 1, !.ret = f.result]
    ELSE [f EXCEPT !.ip = @ + 1]

\* `except Exception: ... return None`
Raise(f, stmt) == [f EXCEPT !.pc = "done", !.ret = None, !.failed = @ \cup {stmt}]

\* load_history's own handler: the error is logged and [] is returned to rag_query.
AfterLoadFailure(f) ==
    Advance([f EXCEPT !.history = <<>>, !.failed = @ \cup {"load_history"}])

\* Variant: save_message lets the exception reach rag_query's handler.
AfterSaveFailure_Propagate(f, stmt) == Raise(f, stmt)

\* save_message's own handler: the error is logged and the call returns normally.
AfterSaveFailure(f, stmt) == Advance([f EXCEPT !.failed = @ \cup {stmt}])

\* Variant: retrieval runs on the raw follow-up.
RetrieverQuery_Raw(f) == f.question

\* The argument of retriever.invoke.
RetrieverQuery(f) == f.standalone

\* The question placed in the generator's user turn.
PromptQuestion(f) == f.question

\* f has run statement stmt (to its end, or into its exception).
Executed(f, stmt) ==
    \/ stmt \in f.failed
    \/ \E i \in 1..(f.ip - 1) : Pipeline[i] = stmt


\* ------------------------------------------------- state after startup
Startup ==
    /\ messages = {}
    /\ next_id = 1
    /\ handles = [retriever |-> build_retriever, llm |-> "llm",
                  structured_llm |-> "structured_llm"]
    /\ rq = [p \in Threads |-> IdleFrame]
    /\ issued = 0
    /\ log = [s \in Sessions |-> <<>>]
    /\ settled = [messages |-> {}, next_id |-> 1]
    /\ had_failure = FALSE
    /\ loaded = None
    /\ hops = 0
    /\ rt = [pc |-> "idle", cands |-> {}, out |-> <<>>]
    /\ ing = [calls |-> 0, chunks |-> {}, existed |-> FALSE, before |-> {},
              raised |-> FALSE, ret |-> None]

Init ==
    /\ Startup
    /\ collection = QueryCollection
    /\ exists = TRUE
    /\ fc = [docs |-> <<>>, out |-> None]

\* ------------------------------------------------------- query / rag_query
\* main.py query(): a caller hands a question and a session id to rag_query.
Query(p, q, s) ==
    /\ rq[p].pc = "idle"
    /\ issued < MaxQueries
    /\ issued' = issued + 1
    /\ rq' = [rq EXCEPT ![p] = [IdleFrame EXCEPT !.pc = "running", !.ip = 1,
                                  !.question = q, !.session_id = s, !.before = messages]]
    /\ UNCHANGED <<messages, next_id, collection, handles, log, settled, had_failure,
                   alone>>

\* 1. history = load_history(session_id): the SELECT succeeds, or load_history
\*    swallows the exception and returns [].
LoadHistory(p) ==
    /\ Stmt(p) = "load_history"
    /\ \/ rq' = [rq EXCEPT ![p] =
                   Advance([rq[p] EXCEPT !.history = load_history(messages, rq[p].session_id)])]
       \/ rq' = [rq EXCEPT ![p] = AfterLoadFailure(rq[p])]
    /\ UNCHANGED <<messages, next_id, collection, handles, issued, log, settled,
                   had_failure, alone>>

\* 2. standalone_question = contextualize_question(question, history, llm)
Contextualize(p) ==
    /\ Stmt(p) = "contextualize_question"
    /\ \/ /\ ~NeedsRewrite(rq[p].history)
          /\ rq' = [rq EXCEPT ![p] = Advance([rq[p] EXCEPT !.standalone = rq[p].question])]
       \/ /\ NeedsRewrite(rq[p].history)
          /\ \E text \in LLMRewrites(rq[p].question) :
               rq' = [rq EXCEPT ![p] =
                        Advance([rq[p] EXCEPT !.standalone = text, !.llm_calls = @ + 1])]
       \/ /\ NeedsRewrite(rq[p].history)
          /\ rq' = [rq EXCEPT ![p] =
                      Raise([rq[p] EXCEPT !.llm_calls = @ + 1], "contextualize_question")]
    /\ UNCHANGED <<messages, next_id, collection, handles, issued, log, settled,
                   had_failure, alone>>

\* 3. retrieved_docs = retriever.invoke(standalone_question): the base retriever
\*    searches, and the reranker compresses a non-empty candidate list.
Retrieve(p) ==
    /\ Stmt(p) = "retriever.invoke"
    /\ LET r == handles.retriever
           f == [rq[p] EXCEPT !.retriever_arg = Some(RetrieverQuery(rq[p]))]
       IN \/ rq' = [rq EXCEPT ![p] = Raise(f, "retriever.invoke")]
          \/ \E c \in SearchResults(collection, r) :
               \/ /\ c = {}
                  /\ rq' = [rq EXCEPT ![p] = Advance([f EXCEPT !.retrieved = <<>>])]
               \/ /\ c # {}
                  /\ rq' = [rq EXCEPT ![p] =
                              Raise([f EXCEPT !.cands = c, !.rerank_called = TRUE],
                                    "retriever.invoke")]
               \/ /\ c # {}
                  /\ \E hits \in RerankResults(c, r.top_n) :
                       rq' = [rq EXCEPT ![p] =
                                Advance([f EXCEPT !.cands = c, !.rerank_called = TRUE,
                                                  !.retrieved = RerankedDocs(hits)])]
    /\ UNCHANGED <<messages, next_id, collection, handles, issued, log, settled,
                   had_failure, alone>>

\* 4./5. build the prompt and call structured_llm.invoke(messages)
Generate(p) ==
    /\ Stmt(p) = "structured_llm.invoke"
    /\ LET f == [rq[p] EXCEPT !.prompt =
                    Some(BuildPrompt(rq[p].history, format_context(rq[p].retrieved),
                                     PromptQuestion(rq[p])))]
       IN \/ \E a \in ComplianceAnswers :
               rq' = [rq EXCEPT ![p] = Advance([f EXCEPT !.result = Some(a)])]
          \/ rq' = [rq EXCEPT ![p] = Raise(f, "structured_llm.invoke")]
    /\ UNCHANGED <<messages, next_id, collection, handles, issued, log, settled,
                   had_failure, alone>>

\* 6a. save_message(session_id, "human", question)
SaveHuman(p) ==
    /\ Stmt(p) = "save_human"
    /\ \/ /\ SaveOk(rq[p].session_id, "human", rq[p].question)
          /\ rq' = [rq EXCEPT ![p] = Advance(rq[p])]
       \/ /\ SaveFail
          /\ rq' = [rq EXCEPT ![p] = AfterSaveFailure(rq[p], "save_human")]
    /\ UNCHANGED <<collection, handles, issued, settled, had_failure, alone>>

\* 6b. save_message(session_id, "ai", result.answer), then `return result`
SaveAi(p) ==
    /\ Stmt(p) = "save_ai"
    /\ \/ /\ SaveOk(rq[p].session_id, "ai", rq[p].result[1].answer)
          /\ rq' = [rq EXCEPT ![p] = Advance(rq[p])]
       \/ /\ SaveFail
          /\ rq' = [rq EXCEPT ![p] = AfterSaveFailure(rq[p], "save_ai")]
    /\ UNCHANGED <<collection, handles, issued, settled, had_failure, alone>>

\* The caller takes the returned value (main.py prints it) and the frame is gone.
Finish(p) ==
    /\ rq[p].pc = "done"
    /\ rq' = [rq EXCEPT ![p] = IdleFrame]
    /\ settled' = IF "retriever.invoke" \in rq[p].failed
                   THEN settled
                   ELSE [messages |-> messages, next_id |-> next_id]
    /\ had_failure' = (had_failure \/ "retriever.invoke" \in rq[p].failed)
    /\ UNCHANGED <<messages, next_id, collection, handles, issued, log, alone>>

RagQuery(p) ==
    \/ \E q \in Questions, s \in Sessions : Query(p, q, s)
    \/ LoadHistory(p)
    \/ Contextualize(p)
    \/ Retrieve(p)
    \/ Generate(p)
    \/ SaveHuman(p)
    \/ SaveAi(p)
    \/ Finish(p)

\* The command loop of main.py: one query at a time.
Next == RagQuery(MainLoop)

Spec == Init /\ [][Next]_vars

\* ------------------------------------- queries while the database is healthy
\* The command loop in an environment where no save_message fails: every INSERT
\* of a running query commits.
SavesCommit == \A p \in Threads : rq'[p].failed \cap {"save_human", "save_ai"} = {}

HealthyNext == Next /\ SavesCommit

HealthySpec == Init /\ [][HealthyNext]_vars

\* ------------------------------------------ queries of two sessions at once
\* Two request threads, each with a session of its own, call query() once with no
\* coordination: the statements of their rag_query calls interleave freely, and
\* each history statement is one atomic SQL statement. A thread keeps the value
\* its call returned.
SessionOf(p) == IF p = MainLoop THEN "s1" ELSE "s2"

\* The table after one earlier exchange in each session, saved interleaved.
EarlierRows ==
    {[id |-> 1, session |-> "s1", role |-> "human", content |-> "q1"],
     [id |-> 2, session |-> "s2", role |-> "human", content |-> "q2"],
     [id |-> 3, session |-> "s2", role |-> "ai", content |-> "a2"],
     [id |-> 4, session |-> "s1", role |-> "ai", content |-> "a1"]}

ConcInit ==
    /\ messages = EarlierRows
    /\ next_id = Cardinality(EarlierRows) + 1
    /\ log = [s \in Sessions |->
                [i \in 1..Len(SelectHistory(EarlierRows, s)) |->
                    [role |-> SelectHistory(EarlierRows, s)[i].role,
                     content |-> SelectHistory(EarlierRows, s)[i].content]]]
    /\ settled = [messages |-> EarlierRows, next_id |-> Cardinality(EarlierRows) + 1]
    /\ handles = [retriever |-> build_retriever, llm |-> "llm",
                  structured_llm |-> "structured_llm"]
    /\ rq = [p \in Threads |-> IdleFrame]
    /\ issued = 0
    /\ had_failure = FALSE
    /\ loaded = None
    /\ hops = 0
    /\ rt = [pc |-> "idle", cands |-> {}, out |-> <<>>]
    /\ ing = [calls |-> 0, chunks |-> {}, existed |-> FALSE, before |-> {},
              raised |-> FALSE, ret |-> None]
    /\ fc = [docs |-> <<>>, out |-> None]
    /\ exists = TRUE
    /\ collection = {CHOOSE c \in QueryCollection : \A d \in QueryCollection : c <= d}

ConcQuery(p) ==
    \/ \E q \in Questions : Query(p, q, SessionOf(p))
    \/ LoadHistory(p)
    \/ Contextualize(p)
    \/ Retrieve(p)
    \/ Generate(p)
    \/ SaveHuman(p)
    \/ SaveAi(p)

ConcNext == \E p \in Threads : ConcQuery(p)

ConcSpec == ConcInit /\ [][ConcNext]_vars


\* ------------------------------------------- the retriever pipeline alone
\* ContextualCompressionRetriever.invoke on a populated collection, one call at a
\* time: the base retriever searches, the reranker compresses a non-empty list.
RetrInit ==
    /\ Startup
    /\ collection = 1..NumChunks
    /\ exists = TRUE
    /\ fc = [docs |-> <<>>, out |-> None]

RetrSearch ==
    /\ rt.pc = "idle"
    /\ \E c \in SearchResults(collection, handles.retriever) :
         rt' = [pc |-> IF c = {} THEN "returned" ELSE "searched", cands |-> c, out |-> <<>>]
    /\ UNCHANGED <<messages, next_id, collection, handles, log, querying, exists, ing, loaded, hops, fc>>

RetrRerank ==
    /\ rt.pc = "searched"
    /\ \E hits \in RerankResults(rt.cands, handles.retriever.top_n) :
         rt' = [rt EXCEPT !.pc = "returned", !.out = RerankedDocs(hits)]
    /\ UNCHANGED <<messages, next_id, collection, handles, log, querying, exists, ing, loaded, hops, fc>>

\* The search or the rerank call raises: invoke returns nothing.
RetrRaise ==
    /\ rt.pc \in {"idle", "searched"}
    /\ rt' = [rt EXCEPT !.pc = "raised"]
    /\ UNCHANGED <<messages, next_id, collection, handles, log, querying, exists, ing, loaded, hops, fc>>

RetrNext == RetrSearch \/ RetrRerank \/ RetrRaise

RetrSpec == RetrInit /\ [][RetrNext]_vars

\* ------------------------------------------------- format_context alone
\* Documents as format_context may receive them: ingested chunks, reranked
\* copies, and documents whose metadata lacks some or all of the keys it reads.
SampleDocs ==
    {ChunkDoc(1),
     RerankedDoc([id |-> 2, relevance_score |-> 1]),
     [page_content |-> "t3", metadata |-> [source |-> "cama.pdf"]],
     [page_content |-> "t4", metadata |-> [total_pages |-> 9]]}

DocLists == UNION {[1..n -> SampleDocs] : n \in 0..MaxDocs}

FmtInit ==
    /\ Startup
    /\ collection = QueryCollection
    /\ exists = TRUE
    /\ fc \in [docs : DocLists, out : {None}]

FormatContext ==
    /\ fc.out = None
    /\ fc' = [fc EXCEPT !.out = Some(format_context(fc.docs))]
    /\ UNCHANGED <<messages, next_id, collection, handles, log, querying, exists, ing, loaded, hops, rt>>

FmtNext == FormatContext

FmtSpec == FmtInit /\ [][FmtNext]_vars

\* ------------------------------------------------ the history store alone
\* Direct calls of save_message, load_history and clear_session, one at a time.
Contents == {"q1", "a1"}

HistSave(s, role, content) ==
    /\ hops < MaxHistoryOps
    /\ hops' = hops + 1
    /\ loaded' = None
    /\ \/ SaveOk(s, role, content)
       \/ SaveFail
    /\ UNCHANGED <<collection, handles, querying, exists, ing, rt, fc>>

HistLoad(s) ==
    /\ \/ loaded' = Some([session |-> s, ok |-> TRUE, history |-> load_history(messages, s)])
       \/ loaded' = Some([session |-> s, ok |-> FALSE, history |-> <<>>])
    /\ UNCHANGED <<messages, next_id, collection, handles, log, querying, exists, ing, hops, rt, fc>>

\* clear_session: the DELETE commits, or the exception is logged and swallowed.
HistClear(s) ==
    /\ hops < MaxHistoryOps
    /\ hops' = hops + 1
    /\ loaded' = None
    /\ \/ /\ messages' = DeleteSession(messages, s)
          /\ log' = [log EXCEPT ![s] = <<>>]
          /\ UNCHANGED next_id
       \/ UNCHANGED <<messages, next_id, log>>
    /\ UNCHANGED <<collection, handles, querying, exists, ing, rt, fc>>

HistNext ==
    \/ \E s \in Sessions, role \in Roles, content \in Contents : HistSave(s, role, content)
    \/ \E s \in Sessions : HistLoad(s)
    \/ \E s \in Sessions : HistClear(s)

HistSpec == Init /\ [][HistNext]_vars

\* --------------------------------------------------- qdrant_ingest alone
\* Startups of the process against a Qdrant server that holds the configured
\* collection or not; the documents folder may differ from one startup to the next.
IngestInit ==
    /\ Startup
    /\ fc = [docs |-> <<>>, out |-> None]
    /\ exists \in BOOLEAN
    /\ collection \in (IF exists THEN SUBSET (1..MaxIngestChunks) ELSE {{}})

\* Variant: the membership test never finds the collection.
CollectionFound_Never(e) == FALSE

\* `qdrant_collection_name in existing_collections`
CollectionFound(e) == e

\* The QdrantVectorStore both branches return.
QdrantStore == [collection_name |-> "QDRANT_COLLECTION_NAME", retrieval_mode |-> "HYBRID"]

IngestCall(chunks, raised, ret) ==
    [calls |-> ing.calls + 1, chunks |-> chunks, existed |-> exists,
     before |-> collection, raised |-> raised, ret |-> ret]

\* The collection exists: connect to it, ingest nothing.
IngestExisting(chunks) ==
    /\ ing.calls < MaxStartups
    /\ CollectionFound(exists)
    /\ ing' = IngestCall(chunks, FALSE, Some(QdrantStore))
    /\ UNCHANGED <<messages, next_id, collection, handles, log, querying, exists,
                   loaded, hops, rt, fc>>

\* The collection is absent: from_documents creates it and upserts every chunk.
IngestFresh(chunks) ==
    /\ ing.calls < MaxStartups
    /\ ~CollectionFound(exists)
    /\ exists' = TRUE
    /\ collection' = collection \cup chunks
    /\ ing' = IngestCall(chunks, FALSE, Some(QdrantStore))
    /\ UNCHANGED <<messages, next_id, handles, log, querying, loaded, hops, rt, fc>>

\* A call raises and `except Exception` returns None: the client, the listing or
\* the count fails (nothing changes), or from_documents fails, before creating
\* the collection or after creating it and upserting only part of the chunks.
IngestRaise(chunks) ==
    /\ ing.calls < MaxStartups
    /\ ing' = IngestCall(chunks, TRUE, None)
    /\ \/ UNCHANGED <<exists, collection>>
       \/ /\ ~CollectionFound(exists)
          /\ exists' = TRUE
          /\ \E part \in SUBSET chunks : collection' = collection \cup part
    /\ UNCHANGED <<messages, next_id, handles, log, querying, loaded, hops, rt, fc>>

IngestNext ==
    \E chunks \in SUBSET (1..MaxIngestChunks) :
        \/ IngestExisting(chunks)
        \/ IngestFresh(chunks)
        \/ IngestRaise(chunks)

IngestSpec == IngestInit /\ [][IngestNext]_vars

\* ------------------------------------------------------------------ claims
Frames == {rq[p] : p \in Threads}
Returned == {f \in Frames : f.pc = "done"}

\* C1: when retriever.invoke raises, rag_query returns None and the session's
\* stored history (indeed the whole table) is what it was when the query began.
C1_RetrieveFailureReturnsNone ==
    \A f \in Returned :
        "retriever.invoke" \in f.failed =>
            /\ f.ret = None
            /\ SelectHistory(messages, f.session_id) = SelectHistory(f.before, f.session_id)
            /\ messages = f.before

\* C1 witness: the reranker raised in a session that already had stored turns.
C1_Witness ==
    \E f \in Returned :
        /\ "retriever.invoke" \in f.failed
        /\ f.rerank_called
        /\ SelectHistory(f.before, f.session_id) # <<>>

\* C2: once the generator has returned an answer, a failing save_message (either
\* one, or both) does not change what rag_query returns: it is that answer.
C2_SaveFailureKeepsAnswer ==
    \A f \in Returned :
        (f.result # None /\ f.failed \cap {"save_human", "save_ai"} # {}) =>
            (f.ret = f.result /\ f.ret # None)

\* C2 witness: both saves failed and the answer was still returned.
C2_Witness ==
    \E f \in Returned :
        /\ {"save_human", "save_ai"} \subseteq f.failed
        /\ f.ret # None

\* C3: with an empty history contextualize_question returns the question itself
\* and never invokes the model; with a non-empty history it invokes it exactly once.
C3_ContextualizeCallCount ==
    \A f \in Frames :
        Executed(f, "contextualize_question") =>
            /\ f.history = <<>> =>
                 (f.llm_calls = 0 /\ f.standalone = f.question /\
                  "contextualize_question" \notin f.failed)
            /\ f.history # <<>> => f.llm_calls = 1

\* C3 witness: a first-turn question passed through the contextualizer.
C3_Witness ==
    \E f \in Frames :
        /\ Executed(f, "contextualize_question")
        /\ f.history = <<>>
        /\ "load_history" \notin f.failed
        /\ f.standalone = f.question


\* The chunk ids whose ingested document is d, relevance_score apart.
SourceChunks(d, cands) ==
    {c \in cands :
        /\ d.page_content = ChunkDoc(c).page_content
        /\ \A k \in DOMAIN ChunkDoc(c).metadata :
               k \in DOMAIN d.metadata /\ d.metadata[k] = ChunkDoc(c).metadata[k]}

\* C4: on a non-empty candidate set (itself at most 6 chunks of the collection)
\* the retriever returns at most 3 chunks, each one of the candidates, in
\* descending order of rerank score.
C4_RetrieverTopN ==
    (rt.pc = "returned" /\ rt.cands # {}) =>
        /\ Cardinality(rt.cands) <= 6
        /\ rt.cands \subseteq collection
        /\ Len(rt.out) <= 3
        /\ \A i \in 1..Len(rt.out) : SourceChunks(rt.out[i], rt.cands) # {}
        /\ \A i, j \in 1..Len(rt.out) :
               i < j => rt.out[i].metadata["relevance_score"] >=
                           rt.out[j].metadata["relevance_score"]

\* C4 witness: six candidates were reranked down to three, with distinct scores among them.
C4_Witness ==
    /\ rt.pc = "returned"
    /\ Cardinality(rt.cands) = 6
    /\ Len(rt.out) = 3
    /\ rt.out[1].metadata["relevance_score"] > rt.out[3].metadata["relevance_score"]

\* C5: if the reranker returns no chunk, the retriever returns no chunk and
\* rag_query returns a ComplianceAnswer whose found_in_docs is False.
C5_EmptyRerankNotFound ==
    \A f \in Returned :
        (f.rerank_called /\ f.retrieved = <<>> /\ f.failed = {}) =>
            (f.ret # None /\ f.ret[1].found_in_docs = FALSE)

\* The pieces of a joined string between its separators.
RECURSIVE SplitAt(_, _)
SplitAt(toks, sep) ==
    IF \A i \in 1..Len(toks) : toks[i] # sep THEN <<toks>>
    ELSE LET k == CHOOSE i \in 1..Len(toks) :
                      toks[i] = sep /\ \A j \in 1..(i - 1) : toks[j] # sep
         IN <<SubSeq(toks, 1, k - 1)>> \o SplitAt(SubSeq(toks, k + 1, Len(toks)), sep)

\* C6: format_context renders chunk i of n as entry i, in input order: a header
\* "[i] Source: <source> | Page: <page> | Category: <category>" naming each of the
\* three once, then the chunk's text; no chunk at all renders as the empty string.
C6_FormatContextEntries ==
    fc.out # None =>
        LET out == fc.out[1]
            entries == SplitAt(out, SEPARATOR)
        IN /\ fc.docs = <<>> => out = <<>>
           /\ fc.docs # <<>> =>
                 /\ Len(entries) = Len(fc.docs)
                 /\ \A i \in 1..Len(fc.docs) :
                       LET md == fc.docs[i].metadata
                       IN entries[i] =
                            <<"[", ToStr(i), "] Source: ",
                              IF "source" \in DOMAIN md THEN md["source"] ELSE "Unknown",
                              " | Page: ",
                              IF "page" \in DOMAIN md THEN ToStr(md["page"]) ELSE "?",
                              " | Category: ",
                              IF "law_category" \in DOMAIN md THEN md["law_category"]
                              ELSE "General Compliance",
                              "\n", fc.docs[i].page_content>>

\* C6 witness: three chunks, the first two different, were formatted.
C6_Witness ==
    /\ fc.out # None
    /\ Len(fc.docs) = 3
    /\ fc.docs[1] # fc.docs[2]
    /\ "source" \in DOMAIN fc.docs[1].metadata
    /\ Len(SplitAt(fc.out[1], SEPARATOR)) = 3

\* C7: load_history returns the turns successfully saved for the session (since
\* it was last cleared) in the order they were saved, each with the role and the
\* text given to save_message.
C7_HistoryRoundTrip ==
    (loaded # None /\ loaded[1].ok) =>
        LET saved == log[loaded[1].session]
            got == loaded[1].history
        IN /\ Len(got) = Len(saved)
           /\ \A i \in 1..Len(saved) :
                  got[i].type = saved[i].role /\ got[i].content = saved[i].content

\* C7 witness: a session holding an ai turn saved before a human turn, with a
\* different text, was loaded while the other session had turns of its own.
C7_Witness ==
    /\ loaded # None
    /\ loaded[1].ok
    /\ Len(loaded[1].history) >= 2
    /\ loaded[1].history[1].type = "ai"
    /\ loaded[1].history[2].type = "human"
    /\ loaded[1].history[1].content # loaded[1].history[2].content
    /\ \E r \in messages : r.session # loaded[1].session

\* C8: a failed history load ends the query with the failure signal.
C8_LoadFailureReturnsNone ==
    \A f \in Returned : "load_history" \in f.failed => f.ret = None

\* C9: a query that fails in search or rerank leaves nothing behind: between
\* queries the table and its id sequence are as the last query without such a
\* failure left them, the handles are as built at startup, and a later query
\* whose calls all succeed returns the generator's answer.
C9_FailureAffectsThatQueryOnly ==
    /\ (\A p \in Threads : rq[p].pc = "idle") =>
           settled = [messages |-> messages, next_id |-> next_id]
    /\ handles = [retriever |-> build_retriever, llm |-> "llm",
                  structured_llm |-> "structured_llm"]
    /\ \A f \in Returned : f.failed = {} => (f.ret = f.result /\ f.ret # None)

\* C9 witness: after a query that failed in retrieval, a later query succeeded.
C9_Witness ==
    /\ had_failure
    /\ \E f \in Returned : f.failed = {} /\ f.ret # None

\* The user turn handed to the generator, split at its two fixed pieces.
UserContext(u) == SubSeq(u, 2, Len(u) - 2)
UserQuestion(u) == u[Len(u)]

\* C10: the retriever receives the contextualizer's output (the rewrite with a
\* non-empty history, the raw question with an empty one); the generator's user
\* turn holds the assembled context and the original question.
C10_RewriteForRetrievalOnly ==
    \A f \in Frames :
        /\ f.retriever_arg # None =>
               /\ f.retriever_arg = Some(f.standalone)
               /\ f.history = <<>> => f.retriever_arg = Some(f.question)
        /\ f.prompt # None =>
               LET u == f.prompt[1].user
               IN /\ u[1] = "Context:\n"
                  /\ u[Len(u) - 1] = "\n\nQuestion: "
                  /\ UserQuestion(u) = f.question
                  /\ UserContext(u) = format_context(f.retrieved)
                  /\ f.prompt[1].history = f.history

\* C10 witness: a follow-up was rewritten, retrieval ran on the rewrite and the
\* generator was asked the original question over a non-empty context.
C10_Witness ==
    \E f \in Frames :
        /\ f.prompt # None
        /\ f.standalone # f.question
        /\ f.retriever_arg = Some(f.standalone)
        /\ f.retrieved # <<>>
        /\ UserQuestion(f.prompt[1].user) = f.question


\* C11: qdrant_ingest on an existing collection returns a store handle (unless the
\* call raises) and leaves the collection's contents as they were, whatever
\* chunks it was given; on an absent collection a call that returns a handle has
\* created the collection and upserted every supplied chunk.
C11_IngestOnlyWhenAbsent ==
    ing.calls > 0 =>
        /\ ing.existed =>
              /\ exists
              /\ collection = ing.before
              /\ ~ing.raised => ing.ret = Some(QdrantStore)
        /\ (~ing.existed /\ ing.ret # None) =>
              /\ exists
              /\ ing.chunks \subseteq collection
              /\ collection = ing.chunks

\* C11 witness: a first startup ingested into an absent collection, and a second
\* startup with other chunks connected to it without adding any.
C11_Witness ==
    /\ ing.calls = 2
    /\ ing.existed
    /\ ing.ret # None
    /\ ing.before # {}
    /\ ~(ing.chunks \subseteq collection)


\* The turns a session holds before the concurrent queries start.
EarlierTurns(s) ==
    IF s = "s1"
    THEN <<[role |-> "human", content |-> "q1"], [role |-> "ai", content |-> "a1"]>>
    ELSE <<[role |-> "human", content |-> "q2"], [role |-> "ai", content |-> "a2"]>>

\* The turns the query of frame f has stored so far, going by f alone.
OwnTurns(f) ==
    (IF Executed(f, "save_human") /\ "save_human" \notin f.failed
     THEN <<[role |-> "human", content |-> f.question]>> ELSE <<>>)
    \o (IF Executed(f, "save_ai") /\ "save_ai" \notin f.failed
        THEN <<[role |-> "ai", content |-> f.result[1].answer]>> ELSE <<>>)

StoredTurns(s) ==
    LET rows == SelectHistory(messages, s)
    IN [i \in 1..Len(rows) |-> [role |-> rows[i].role, content |-> rows[i].content]]

\* C12: with the rag_query calls of two sessions interleaved statement by
\* statement, each session's stored history is what its own query alone would have
\* made it (its earlier turns, then the turns that query has saved), and the
\* history a query loaded is its own session's earlier turns, in order.
C12_SessionsDoNotInterfere ==
    \A p \in Threads :
        LET f == rq[p]
            s == SessionOf(p)
        IN /\ StoredTurns(s) = EarlierTurns(s) \o OwnTurns(f)
           /\ (Executed(f, "load_history") /\ "load_history" \notin f.failed) =>
                 /\ Len(f.history) = Len(EarlierTurns(s))
                 /\ \A i \in 1..Len(f.history) :
                       /\ f.history[i].type = EarlierTurns(s)[i].role
                       /\ f.history[i].content = EarlierTurns(s)[i].content

\* C12 witness: both queries returned an answer with every call succeeding, and a
\* row saved by one lies between the two rows saved by the other.
C12_Witness ==
    /\ \A p \in Threads : rq[p].pc = "done" /\ rq[p].failed = {} /\ rq[p].ret # None
    /\ \E r1, r2, r3 \in messages \ EarlierRows :
          /\ r1.session = r3.session
          /\ r2.session # r1.session
          /\ r1.id < r2.id
          /\ r2.id < r3.id


\* Turns alternate human, ai, starting with human.
Alternating(turns) ==
    \A i \in 1..Len(turns) : turns[i].role = (IF i % 2 = 1 THEN "human" ELSE "ai")

TurnsOf(msgs, s) ==
    LET rows == SelectHistory(msgs, s)
    IN [i \in 1..Len(rows) |-> [role |-> rows[i].role, content |-> rows[i].content]]

\* A query on session s has stored its question and not yet its answer.
MidSave(s) ==
    \E f \in Frames :
        /\ f.pc = "running"
        /\ f.session_id = s
        /\ Executed(f, "save_human")
        /\ ~Executed(f, "save_ai")

\* C13: with queries run one after another and every save committing, a session's
\* history is always whole (human, ai) pairs (but for the question of the query
\* now between its two saves); a query that returns an answer has appended exactly
\* the pair (its original question, its answer text) to its session and nothing
\* else, a query that returns None has appended nothing, and the rows a query
\* found are all still there unchanged.
C13_HistoryIsQuestionAnswerPairs ==
    /\ \A s \in Sessions :
          /\ Alternating(StoredTurns(s))
          /\ (Len(StoredTurns(s)) % 2 = 1) <=> MidSave(s)
    /\ Cardinality(messages) <= 2 * issued
    /\ \A f \in Frames : f.before \subseteq messages
    /\ \A f \in Returned :
          /\ f.ret = None => messages = f.before
          /\ f.ret # None =>
                /\ StoredTurns(f.session_id) =
                      TurnsOf(f.before, f.session_id)
                      \o <<[role |-> "human", content |-> f.question],
                           [role |-> "ai", content |-> f.ret[1].answer]>>
                /\ \A s \in Sessions \ {f.session_id} :
                      StoredTurns(s) = TurnsOf(f.before, s)

\* C13 witness: the second answered query of a session, a follow-up the
\* contextualizer rewrote, has stored its pair after the first one.
C13_Witness ==
    \E f \in Returned :
        /\ f.ret # None
        /\ f.standalone # f.question
        /\ Len(StoredTurns(f.session_id)) = 4
        /\ StoredTurns(f.session_id)[3].content = f.question

====
